---- MODULE Spec2Model ----
(***************************************************************************)
(* Model of the SIP indicator REST API: the indicator routes               *)
(* (api/routes/indicator.py) and the taxonomy routes, of which             *)
(* api/routes/indicator_status.py is the representative (the impact and    *)
(* confidence routes have the same shape and are modelled by the same      *)
(* operators, parameterised by the table name).                            *)
(*                                                                         *)
(* The relational store is the variable db.  One request is one action:    *)
(* the decorators, the handler body and the commit or the discarding of    *)
(* the session happen in one step (section 5 of the specification: each    *)
(* request runs to completion synchronously).  SpecRace alone splits       *)
(* create_indicator in two steps, its checks and its commit, for requests  *)
(* that different workers of the server handle at the same time: pending   *)
(* holds what each worker is doing.                                        *)
(***************************************************************************)
EXTENDS Integers, FiniteSets, Sequences, TLC

VARIABLES db, config, clock, req, resp, pending

vars == <<db, config, clock, req, resp, pending>>

(***************************************************************************)
(* Bounds of the model.                                                    *)
(***************************************************************************)
MaxId == 2      \* primary keys of a taxonomy table are drawn from 1..MaxId
MaxInd == 2     \* primary keys of the indicator table are drawn from 1..MaxInd
MaxTime == 2    \* the clock takes the values 1..MaxTime

\* Python's None: the result of a query that finds no row and the value of
\* a handler step that does not return.  A NULL foreign key is None.id.
None == [id |-> 0]

TableNames == {"confidence", "impact", "status"}
TaxValues == {"LOW", "HIGH"}
Ids == 1..MaxId
IndIds == 1..MaxInd

(***************************************************************************)
(* Rows of the tables that have no route among the modelled sources.  They *)
(* are fixed: the type, user, campaign, intel source, intel reference and  *)
(* tag tables.                                                             *)
(***************************************************************************)
IndicatorType == {[id |-> 1, value |-> "IP"], [id |-> 2, value |-> "Domain"]}
User == {[id |-> 1, username |-> "analyst", active |-> TRUE],
         [id |-> 2, username |-> "admin", active |-> TRUE],
         [id |-> 3, username |-> "inactive", active |-> FALSE]}
Campaign == {[id |-> 1, name |-> "Derpsters"]}
IntelSource == {[id |-> 1, value |-> "OSINT"], [id |-> 2, value |-> "Vendor"]}
IntelReference == {[id |-> 1, reference |-> "http://blog", source |-> 1]}
Tag == {[id |-> 1, value |-> "phish"]}

(***************************************************************************)
(* Query helpers of the ORM.                                               *)
(***************************************************************************)
\* Query.first(): the first row of a result, None when it is empty.  The
\* queries that use it filter on a unique column; the row of lowest primary
\* key is taken when a result holds several rows.
first(rows) ==
    IF rows = {} THEN None
    ELSE CHOOSE r \in rows : \A q \in rows : r.id <= q.id

\* Model.query.get(id): the row of that primary key, or None.
get(rows, id) == first({r \in rows : r.id = id})

\* Model.query.filter_by(value=v).first()
by_value(rows, v) == first({r \in rows : r.value = v})

\* Model.query.order_by(Model.id).limit(1).first()
lowest(rows) == first(rows)

\* The primary keys the store may give to a new row: an auto-increment key
\* greater than every key in the table (the next one, or a later one when
\* the sequence has gaps).
new_ids(rows, ids) == {i \in ids : \A r \in rows : i > r.id}

\* error_response(code, msg): the JSON body {"msg": msg} with that status.
error_response(code, msg) == [code |-> code, msg |-> msg, data |-> {}]

\* A response that carries rows (jsonify of to_dict()) or nothing ('', 204).
ok_response(code, data) == [code |-> code, msg |-> "", data |-> data]

(***************************************************************************)
(* The integrity constraints the relational store enforces at commit: the  *)
(* references of an indicator are NOT NULL foreign keys, (type, value) is  *)
(* unique among indicators and value is unique within a taxonomy table.    *)
(***************************************************************************)
\* fk_ok with nullable confidence, impact and status columns.
fk_ok_nullable(store) ==
    \A i \in store.indicators :
        /\ \E t \in IndicatorType : t.id = i.type
        /\ \E u \in User : u.id = i.user
        /\ \A tbl \in TableNames :
              i[tbl] = None.id \/ \E r \in store[tbl] : r.id = i[tbl]
        /\ i.campaigns \subseteq {c.id : c \in Campaign}
        /\ i.references \subseteq {c.id : c \in IntelReference}
        /\ i.tags \subseteq {c.id : c \in Tag}

fk_ok(store) ==
    \A i \in store.indicators :
        /\ \E t \in IndicatorType : t.id = i.type
        /\ \E u \in User : u.id = i.user
        /\ \A tbl \in TableNames :
              i[tbl] # None.id /\ \E r \in store[tbl] : r.id = i[tbl]
        /\ i.campaigns \subseteq {c.id : c \in Campaign}
        /\ i.references \subseteq {c.id : c \in IntelReference}
        /\ i.tags \subseteq {c.id : c \in Tag}

unique_ok(store) ==
    /\ \A i, j \in store.indicators :
          (i.type = j.type /\ i.value = j.value) => i = j
    /\ \A i, j \in store.indicators : i.id = j.id => i = j
    /\ \A tbl \in TableNames : \A r, q \in store[tbl] :
          (r.value = q.value \/ r.id = q.id) => r = q

integrity_ok(store) == fk_ok(store) /\ unique_ok(store)

(***************************************************************************)
(* Requests.  A body is absent, not JSON, or a JSON object: a function     *)
(* from the keys it holds to their values.  A token is absent or carries   *)
(* the roles of its user.                                                  *)
(***************************************************************************)
EmptyObject == [k \in {} |-> ""]
NoBody == [kind |-> "none", data |-> EmptyObject]
Malformed == [kind |-> "malformed", data |-> EmptyObject]
Json(obj) == [kind |-> "json", data |-> obj]

NoToken == [present |-> FALSE, roles |-> {}]
TokenOf(roles) == [present |-> TRUE, roles |-> roles]

NoRole == ""    \* app.config[method] is unset: no token is required

(***************************************************************************)
(* The decorators of project.api.decorators.                               *)
(***************************************************************************)
\* check_if_token_required: when a role is configured for the HTTP method,
\* the request needs a token and the token needs that role.
check_if_token_required(method, token, cfg) ==
    IF cfg[method] = NoRole THEN None
    ELSE IF ~token.present
         THEN error_response(401, "Missing Authorization Header")
    ELSE IF cfg[method] \notin token.roles
         THEN error_response(401, cfg[method] \o " role required")
    ELSE None

\* validate_json: the body, when there is one, must be JSON.
validate_json(body) ==
    IF body.kind = "malformed"
    THEN error_response(400, "Request must be valid JSON")
    ELSE None

\* validate_schema(schema): every required key is present (the message
\* names the first missing one), no key outside the schema's properties is
\* present and an array holds at least minItems items.
validate_schema(schema, body) ==
    LET data == body.data
        missing == {k \in 1..Len(schema.required) :
                       schema.required[k] \notin DOMAIN data}
        k0 == CHOOSE k \in missing : \A j \in missing : k <= j
    IN  IF missing # {}
        THEN error_response(400,
                 "Request must include \"" \o schema.required[k0] \o "\"")
        ELSE IF ~(DOMAIN data \subseteq schema.properties)
        THEN error_response(400, "Request JSON does not match schema")
        ELSE IF \E k \in DOMAIN data \cap schema.arrays : Len(data[k]) < 1
        THEN error_response(400, "Request JSON does not match schema")
        ELSE None

\* The outcome of a request: the response and the store after it.
Outcome(response, store) == [resp |-> response, db |-> store]

(***************************************************************************)
(* Taxonomy routes (api/routes/indicator_status.py), for the table tbl.    *)
(***************************************************************************)
status_create_schema ==
    [properties |-> {"value"}, required |-> <<"value">>, arrays |-> {}]

status_update_schema ==
    [properties |-> {"value"}, required |-> <<"value">>, arrays |-> {}]

\* The handler body of create_indicator_status.
create_status_body(tbl, data, newid, store) ==
    LET existing == by_value(store[tbl], data.value)
        row == [id |-> newid, value |-> data.value]
        new == [store EXCEPT ![tbl] = @ \cup {row}]
    IN  IF existing # None
        THEN Outcome(error_response(409, "Indicator " \o tbl \o " already exists"),
                     store)
        ELSE IF ~integrity_ok(new)
        THEN Outcome(error_response(500, "IntegrityError"), store)
        ELSE Outcome(ok_response(201, {row}), new)

\* create_indicator_status with validate_schema applied before
\* check_if_token_required.
create_indicator_status_validated_first(tbl, r, newid, store, cfg) ==
    LET a == check_if_token_required("POST", r.token, cfg)
        j == validate_json(r.body)
        v == validate_schema(status_create_schema, r.body)
    IN  IF j # None THEN Outcome(j, store)
        ELSE IF v # None THEN Outcome(v, store)
        ELSE IF a # None THEN Outcome(a, store)
        ELSE create_status_body(tbl, r.body.data, newid, store)

\* POST /indicators/<tbl>, with its decorators in the order they apply.
create_indicator_status(tbl, r, newid, store, cfg) ==
    LET a == check_if_token_required("POST", r.token, cfg)
        j == validate_json(r.body)
        v == validate_schema(status_create_schema, r.body)
    IN  IF a # None THEN Outcome(a, store)
        ELSE IF j # None THEN Outcome(j, store)
        ELSE IF v # None THEN Outcome(v, store)
        ELSE create_status_body(tbl, r.body.data, newid, store)

\* read_indicator_status that takes the first row of the table instead of
\* the row of the ID.
read_indicator_status_first_row(tbl, r, store, cfg) ==
    LET a == check_if_token_required("GET", r.token, cfg)
        row == first(store[tbl])
    IN  IF a # None THEN Outcome(a, store)
        ELSE IF row = None
        THEN Outcome(error_response(404, "Indicator " \o tbl \o " ID not found"),
                     store)
        ELSE Outcome(ok_response(200, {row}), store)

\* GET /indicators/<tbl>/<id>
read_indicator_status(tbl, r, store, cfg) ==
    LET a == check_if_token_required("GET", r.token, cfg)
        row == get(store[tbl], r.id)
    IN  IF a # None THEN Outcome(a, store)
        ELSE IF row = None
        THEN Outcome(error_response(404, "Indicator " \o tbl \o " ID not found"),
                     store)
        ELSE Outcome(ok_response(200, {row}), store)

\* GET /indicators/<tbl>
read_indicator_statuses(tbl, r, store, cfg) ==
    LET a == check_if_token_required("GET", r.token, cfg)
    IN  IF a # None THEN Outcome(a, store)
        ELSE Outcome(ok_response(200, store[tbl]), store)

\* update_indicator_status without the commit: the response shows the new
\* value and the store keeps the old one.
update_status_body_uncommitted(tbl, id, data, store) ==
    LET row == get(store[tbl], id)
        existing == by_value(store[tbl], data.value)
        newrow == [id |-> id, value |-> data.value]
    IN  IF row = None
        THEN Outcome(error_response(404, "Indicator " \o tbl \o " ID not found"),
                     store)
        ELSE IF existing # None
        THEN Outcome(error_response(409, "Indicator " \o tbl \o " already exists"),
                     store)
        ELSE Outcome(ok_response(200, {newrow}), store)

\* update_indicator_status with a duplicate check that leaves out the row
\* being updated.
update_status_body_others(tbl, id, data, store) ==
    LET row == get(store[tbl], id)
        existing == by_value(store[tbl] \ {row}, data.value)
        newrow == [id |-> id, value |-> data.value]
        new == [store EXCEPT ![tbl] = (@ \ {row}) \cup {newrow}]
    IN  IF row = None
        THEN Outcome(error_response(404, "Indicator " \o tbl \o " ID not found"),
                     store)
        ELSE IF existing # None
        THEN Outcome(error_response(409, "Indicator " \o tbl \o " already exists"),
                     store)
        ELSE Outcome(ok_response(200, {newrow}), new)

\* The handler body of update_indicator_status.
update_status_body(tbl, id, data, store) ==
    LET row == get(store[tbl], id)
        existing == by_value(store[tbl], data.value)
        newrow == [id |-> id, value |-> data.value]
        new == [store EXCEPT ![tbl] = (@ \ {row}) \cup {newrow}]
    IN  IF row = None
        THEN Outcome(error_response(404, "Indicator " \o tbl \o " ID not found"),
                     store)
        ELSE IF existing # None
        THEN Outcome(error_response(409, "Indicator " \o tbl \o " already exists"),
                     store)
        ELSE IF ~integrity_ok(new)
        THEN Outcome(error_response(500, "IntegrityError"), store)
        ELSE Outcome(ok_response(200, {newrow}), new)

\* update_indicator_status with the row looked up before the body is
\* validated.
update_indicator_status_lookup_first(tbl, r, store, cfg) ==
    LET a == check_if_token_required("PUT", r.token, cfg)
        j == validate_json(r.body)
        v == validate_schema(status_update_schema, r.body)
    IN  IF a # None THEN Outcome(a, store)
        ELSE IF get(store[tbl], r.id) = None
        THEN Outcome(error_response(404, "Indicator " \o tbl \o " ID not found"),
                     store)
        ELSE IF j # None THEN Outcome(j, store)
        ELSE IF v # None THEN Outcome(v, store)
        ELSE update_status_body(tbl, r.id, r.body.data, store)

\* PUT /indicators/<tbl>/<id>
update_indicator_status(tbl, r, store, cfg) ==
    LET a == check_if_token_required("PUT", r.token, cfg)
        j == validate_json(r.body)
        v == validate_schema(status_update_schema, r.body)
    IN  IF a # None THEN Outcome(a, store)
        ELSE IF j # None THEN Outcome(j, store)
        ELSE IF v # None THEN Outcome(v, store)
        ELSE update_status_body(tbl, r.id, r.body.data, store)

\* delete_indicator_status without the except branch of the commit.
delete_status_body_unprotected(tbl, id, store) ==
    LET row == get(store[tbl], id)
        new == [store EXCEPT ![tbl] = @ \ {row}]
    IN  IF row = None
        THEN Outcome(error_response(404, "Indicator " \o tbl \o " ID not found"),
                     store)
        ELSE Outcome(ok_response(204, {}), new)

\* The handler body of delete_indicator_status: the delete is committed, and
\* an IntegrityError of the commit is rolled back and answered with 409.
delete_status_body(tbl, id, store) ==
    LET row == get(store[tbl], id)
        new == [store EXCEPT ![tbl] = @ \ {row}]
    IN  IF row = None
        THEN Outcome(error_response(404, "Indicator " \o tbl \o " ID not found"),
                     store)
        ELSE IF ~integrity_ok(new)
        THEN Outcome(error_response(409,
                 "Unable to delete indicator " \o tbl
                     \o " due to foreign key constraints"), store)
        ELSE Outcome(ok_response(204, {}), new)

\* DELETE /indicators/<tbl>/<id>
delete_indicator_status(tbl, r, store, cfg) ==
    LET a == check_if_token_required("DELETE", r.token, cfg)
    IN  IF a # None THEN Outcome(a, store)
        ELSE delete_status_body(tbl, r.id, store)

(***************************************************************************)
(* Indicator routes (api/routes/indicator.py).                             *)
(*                                                                         *)
(* An indicator row holds the primary keys of the rows it references; its  *)
(* campaigns, references and tags are the sets of keys of the association  *)
(* tables.  An indicator value is a sequence of characters.                *)
(***************************************************************************)
Arrays == {"campaigns", "references", "tags"}

create_schema ==
    [properties |-> {"campaigns", "case_sensitive", "confidence", "impact",
                     "references", "status", "substring", "tags", "username",
                     "type", "value"},
     required |-> <<"username", "type", "value">>,
     arrays |-> Arrays]

\* update_schema with the type and value properties of create_schema.
update_schema_typed ==
    [properties |-> {"campaigns", "case_sensitive", "confidence", "impact",
                     "references", "status", "substring", "tags", "username",
                     "type", "value"},
     required |-> <<>>,
     arrays |-> Arrays]

update_schema ==
    [properties |-> {"campaigns", "case_sensitive", "confidence", "impact",
                     "references", "status", "substring", "tags", "username"},
     required |-> <<>>,
     arrays |-> Arrays]

\* The spellings of a boolean a client sends (the JSON literals, or the
\* text of a query argument).
BooleanStrings == {"true", "false"}

\* parse_boolean(value, default) of project.api.helpers: the boolean of a
\* recognised spelling, the default for anything else.
parse_boolean(value, default) ==
    IF value \in BooleanStrings THEN value = "true" ELSE default

\* User.query.filter_by(username=name).first()
by_username(rows, name) == first({r \in rows : r.username = name})

\* Campaign.query.filter_by(name=value).first()
by_name(rows, name) == first({r \in rows : r.name = name})

\* IntelReference.query.filter_by(reference=value).first()
by_reference(rows, name) == first({r \in rows : r.reference = name})

\* The lookup of one element of a campaigns, references or tags array.
lookup(field, name) ==
    IF field = "campaigns" THEN by_name(Campaign, name)
    ELSE IF field = "references" THEN by_reference(IntelReference, name)
    ELSE by_value(Tag, name)

\* The loop over an array of the body: the index of the first element that
\* resolves to no row, 0 when every element resolves.
first_unresolved(field, names) ==
    LET bad == {k \in 1..Len(names) : lookup(field, names[k]) = None}
    IN  IF bad = {} THEN 0 ELSE CHOOSE k \in bad : \A j \in bad : k <= j

\* The primary keys of the rows the elements of an array resolve to.
resolved(field, names) ==
    {lookup(field, names[k]).id : k \in 1..Len(names)}
        \ {None.id}

\* create_indicator without the check for an existing type+value.
ci_existing_unchecked(store, _type, value) == None

\* create_indicator, "Verify this type+value does not already exist".
ci_existing(store, _type, value) ==
    first({i \in store.indicators : i.type = _type.id /\ i.value = value})

\* create_indicator without the check of the user's active flag.
ci_inactive_unchecked(user) == FALSE

\* create_indicator, "Verify the user is active".
ci_inactive(user) == ~user.active

\* create_indicator with a default query ordered by descending ID.
ci_default_descending(rows) ==
    IF rows = {} THEN None
    ELSE CHOOSE r \in rows : \A q \in rows : r.id >= q.id

\* create_indicator, the default row of an omitted confidence, impact or
\* status: the first row by ascending ID, None when the table is empty.
ci_default(rows) == lowest(rows)

\* create_indicator, a confidence, impact or status the body supplies.
ci_supplied(rows, value) == by_value(rows, value)

\* create_indicator, the row of the confidence, impact or status field.
ci_taxonomy(store, data, field) ==
    IF field \notin DOMAIN data
    THEN ci_default(store[field])
    ELSE ci_supplied(store[field], data[field])

\* create_indicator with loops that skip an element that resolves to no row.
ci_array_error_skipped(data, field) == 0

\* create_indicator, a campaigns, references or tags array of the body: the
\* index of the element the loop returns 404 for, 0 when there is none.
ci_array_error(data, field) ==
    IF field \in DOMAIN data THEN first_unresolved(field, data[field]) ELSE 0

ci_array(data, field) ==
    IF field \in DOMAIN data THEN resolved(field, data[field]) ELSE {}

\* create_indicator, case_sensitive and substring (default False).
ci_boolean(data, field) ==
    IF field \in DOMAIN data THEN parse_boolean(data[field], FALSE) ELSE FALSE

\* The handler body of create_indicator.  Nothing is added to the session
\* before line 149, so every early return leaves the store as it was.
create_indicator_body(data, newid, now, store) ==
    LET _type == by_value(IndicatorType, data.type)
        user == by_username(User, data.username)
        existing == ci_existing(store, _type, data.value)
        confidence == ci_taxonomy(store, data, "confidence")
        impact == ci_taxonomy(store, data, "impact")
        status == ci_taxonomy(store, data, "status")
        bad_c == ci_array_error(data, "campaigns")
        bad_r == ci_array_error(data, "references")
        bad_t == ci_array_error(data, "tags")
        indicator ==
            [id |-> newid, type |-> _type.id, user |-> user.id,
             value |-> data.value,
             campaigns |-> ci_array(data, "campaigns"),
             case_sensitive |-> ci_boolean(data, "case_sensitive"),
             confidence |-> confidence.id,
             impact |-> impact.id,
             references |-> ci_array(data, "references"),
             status |-> status.id,
             substring |-> ci_boolean(data, "substring"),
             tags |-> ci_array(data, "tags"),
             created_time |-> now, modified_time |-> now]
        new == [store EXCEPT !.indicators = @ \cup {indicator}]
    IN  IF _type = None
        THEN Outcome(error_response(404, "Indicator type not found"), store)
        ELSE IF user = None
        THEN Outcome(error_response(404,
                 "User username not found: " \o data.username), store)
        ELSE IF ci_inactive(user)
        THEN Outcome(error_response(401,
                 "Cannot create an indicator with an inactive user"), store)
        ELSE IF existing # None
        THEN Outcome(error_response(409, "Indicator already exists"), store)
        ELSE IF bad_c # 0
        THEN Outcome(error_response(404,
                 "Campaign not found: " \o data.campaigns[bad_c]), store)
        ELSE IF confidence = None /\ "confidence" \in DOMAIN data
        THEN Outcome(error_response(404,
                 "Indicator confidence not found: " \o data.confidence), store)
        ELSE IF impact = None /\ "impact" \in DOMAIN data
        THEN Outcome(error_response(404,
                 "Indicator impact not found: " \o data.impact), store)
        ELSE IF bad_r # 0
        THEN Outcome(error_response(404,
                 "Reference not found: " \o data.references[bad_r]), store)
        ELSE IF status = None /\ "status" \in DOMAIN data
        THEN Outcome(error_response(404,
                 "Indicator status not found: " \o data.status), store)
        ELSE IF bad_t # 0
        THEN Outcome(error_response(404,
                 "Tag not found: " \o data.tags[bad_t]), store)
        ELSE IF ~integrity_ok(new)
        THEN Outcome(error_response(500, "IntegrityError"), store)
        ELSE Outcome(ok_response(201, {indicator}), new)

\* POST /indicators, with its decorators in the order they apply.
create_indicator(r, newid, now, store, cfg) ==
    LET a == check_if_token_required("POST", r.token, cfg)
        j == validate_json(r.body)
        v == validate_schema(create_schema, r.body)
    IN  IF a # None THEN Outcome(a, store)
        ELSE IF j # None THEN Outcome(j, store)
        ELSE IF v # None THEN Outcome(v, store)
        ELSE create_indicator_body(r.body.data, newid, now, store)

\* GET /indicators/<id>
read_indicator(r, store, cfg) ==
    LET a == check_if_token_required("GET", r.token, cfg)
        indicator == get(store.indicators, r.id)
    IN  IF a # None THEN Outcome(a, store)
        ELSE IF indicator = None
        THEN Outcome(error_response(404, "Indicator ID not found"), store)
        ELSE Outcome(ok_response(200, {indicator}), store)

\* The handler body of delete_indicator.
delete_indicator_body(id, store) ==
    LET indicator == get(store.indicators, id)
        new == [store EXCEPT !.indicators = @ \ {indicator}]
    IN  IF indicator = None
        THEN Outcome(error_response(404, "Indicator ID not found"), store)
        ELSE IF ~integrity_ok(new)
        THEN Outcome(error_response(409,
                 "Unable to delete indicator due to foreign key constraints"),
                 store)
        ELSE Outcome(ok_response(204, {}), new)

\* DELETE /indicators/<id>
delete_indicator(r, store, cfg) ==
    LET a == check_if_token_required("DELETE", r.token, cfg)
    IN  IF a # None THEN Outcome(a, store)
        ELSE delete_indicator_body(r.id, store)

(***************************************************************************)
(* update_indicator.  The handler changes the indicator object of the      *)
(* session field by field and commits at the end; a return before the      *)
(* commit leaves the changes in the session, which is discarded with the   *)
(* request.  The state of the handler between two fields is the record     *)
(*   ind   the indicator object as the session holds it,                   *)
(*   ret   the response returned so far, None while the handler runs,      *)
(*   nones TRUE when a collection of the object holds a None.              *)
(*                                                                         *)
(* A None in a relationship collection is what the ORM makes of it at the  *)
(* next flush: FlushError ("raise"), or the None is left out ("skip").     *)
(***************************************************************************)
OrmNone == {"raise", "skip"}

\* The flush a query of the session starts with (autoflush).
autoflush(s, orm) ==
    IF s.nones /\ orm = "raise"
    THEN [s EXCEPT !.ret = error_response(500, "FlushError")]
    ELSE s

\* update_indicator, a campaigns, references or tags array: error_response
\* is called without return for an element that resolves to no row, and
\* None is appended for it.
ui_array(s, data, field, orm) ==
    IF s.ret # None \/ field \notin DOMAIN data THEN s
    ELSE LET f == autoflush(s, orm)
         IN  IF f.ret # None THEN f
             ELSE IF Len(data[field]) = 0 THEN f
             ELSE [f EXCEPT
                     !.ind[field] = resolved(field, data[field]),
                     !.nones = @ \/ first_unresolved(field, data[field]) # 0]

\* update_indicator, case_sensitive and substring.
ui_boolean(s, data, field) ==
    IF s.ret # None \/ field \notin DOMAIN data THEN s
    ELSE [s EXCEPT !.ind[field] = parse_boolean(data[field], FALSE)]

\* update_indicator with the impact block assigning indicator.confidence.
ui_taxonomy_pasted(s, data, field, store, orm) ==
    IF s.ret # None \/ field \notin DOMAIN data THEN s
    ELSE LET f == autoflush(s, orm)
             row == by_value(store[field], data[field])
             target == IF field = "impact" THEN "confidence" ELSE field
         IN  IF f.ret # None THEN f
             ELSE IF row = None
             THEN [f EXCEPT !.ret = error_response(404,
                     "Indicator " \o field \o " not found: " \o data[field])]
             ELSE [f EXCEPT !.ind[target] = row.id]

\* update_indicator, confidence, impact and status.
ui_taxonomy(s, data, field, store, orm) ==
    IF s.ret # None \/ field \notin DOMAIN data THEN s
    ELSE LET f == autoflush(s, orm)
             row == by_value(store[field], data[field])
         IN  IF f.ret # None THEN f
             ELSE IF row = None
             THEN [f EXCEPT !.ret = error_response(404,
                     "Indicator " \o field \o " not found: " \o data[field])]
             ELSE [f EXCEPT !.ind[field] = row.id]

\* update_indicator, username.
ui_username(s, data, orm) ==
    IF s.ret # None \/ "username" \notin DOMAIN data THEN s
    ELSE LET f == autoflush(s, orm)
             user == by_username(User, data.username)
         IN  IF f.ret # None THEN f
             ELSE IF user = None
             THEN [f EXCEPT !.ret = error_response(404,
                     "User username not found: " \o data.username)]
             ELSE IF ~user.active
             THEN [f EXCEPT !.ret = error_response(401,
                     "Cannot update an indicator with an inactive user")]
             ELSE [f EXCEPT !.ind.user = user.id]

\* The columns of the indicator row (the arrays are association rows).
Columns == {"type", "value", "user", "confidence", "impact", "status",
            "case_sensitive", "substring"}

\* update_indicator whose flushed assignments stay in the store when the
\* handler returns an error.
ui_commit_flushed(s, old, now, store, orm) ==
    LET new == [store EXCEPT !.indicators = (@ \ {old}) \cup {s.ind}]
    IN  IF s.ret # None THEN Outcome(s.ret, new)
        ELSE IF ~integrity_ok(new)
        THEN Outcome(error_response(500, "IntegrityError"), store)
        ELSE Outcome(ok_response(200, {s.ind}), new)

\* update_indicator, db.session.commit() and the response; a handler that
\* returned before it commits nothing.  modified_time is set when a column
\* of the row is updated.
ui_commit(s, old, now, store, orm) ==
    LET f == autoflush(s, orm)
        touched == \E c \in Columns : f.ind[c] # old[c]
        indicator == IF touched THEN [f.ind EXCEPT !.modified_time = now]
                     ELSE f.ind
        new == [store EXCEPT !.indicators = (@ \ {old}) \cup {indicator}]
    IN  IF f.ret # None THEN Outcome(f.ret, store)
        ELSE IF ~integrity_ok(new)
        THEN Outcome(error_response(500, "IntegrityError"), store)
        ELSE Outcome(ok_response(200, {indicator}), new)

\* The handler body of update_indicator.
update_indicator_body(id, data, now, store, orm) ==
    LET indicator == get(store.indicators, id)
        s0 == [ind |-> indicator, ret |-> None, nones |-> FALSE]
        s1 == ui_array(s0, data, "campaigns", orm)
        s2 == ui_boolean(s1, data, "case_sensitive")
        s3 == ui_taxonomy(s2, data, "confidence", store, orm)
        s4 == ui_taxonomy(s3, data, "impact", store, orm)
        s5 == ui_array(s4, data, "references", orm)
        s6 == ui_taxonomy(s5, data, "status", store, orm)
        s7 == ui_boolean(s6, data, "substring")
        s8 == ui_array(s7, data, "tags", orm)
        s9 == ui_username(s8, data, orm)
    IN  IF indicator = None
        THEN Outcome(error_response(404, "Indicator ID not found"), store)
        ELSE ui_commit(s9, indicator, now, store, orm)

\* PUT /indicators/<id>, with its decorators in the order they apply.
update_indicator(r, now, store, cfg, orm) ==
    LET a == check_if_token_required("PUT", r.token, cfg)
        j == validate_json(r.body)
        v == validate_schema(update_schema, r.body)
    IN  IF a # None THEN Outcome(a, store)
        ELSE IF j # None THEN Outcome(j, store)
        ELSE IF v # None THEN Outcome(v, store)
        ELSE update_indicator_body(r.id, r.body.data, now, store, orm)

(***************************************************************************)
(* read_indicators.  The query arguments are a function from the keys the  *)
(* URL holds to their values; sources and tags are the lists their         *)
(* comma-separated text splits into; a date argument parses or not.        *)
(***************************************************************************)
DateArg(t) == [parses |-> TRUE, t |-> t]
BadDate == [parses |-> FALSE, t |-> 0]

date_max == MaxTime + 1    \* datetime.date.max: later than every row
date_min == 0              \* datetime.date.min: earlier than every row
impossible_id == -1        \* the ID of an unresolvable filter value

\* dateutil's parse(), with the fallback of the except branch.
parse(arg, fallback) == IF arg.parses THEN arg.t ELSE fallback

\* Indicator.<column>.is_(parse_boolean(arg, default=None)): a recognised
\* boolean is compared with the column, None matches only a NULL column,
\* which no row has.
is_(column, arg) ==
    IF arg \in BooleanStrings THEN column = parse_boolean(arg, FALSE)
    ELSE FALSE

\* filter_id falling back on the first row of the table.
filter_id_first_row(rows, value) ==
    LET row == by_value(rows, value)
    IN  IF row # None THEN row.id ELSE first(rows).id

\* The ID a confidence, impact, status, type or source filter compares
\* with: the row's, or -1 when the value names no row.
filter_id(rows, value) ==
    LET row == by_value(rows, value)
    IN  IF row # None THEN row.id ELSE impossible_id

\* Indicator.value.like('%pattern%')
like(value, pattern) ==
    \E k \in 1..(Len(value) + 1) :
        /\ k + Len(pattern) - 1 <= Len(value)
        /\ SubSeq(value, k, k + Len(pattern) - 1) = pattern

\* Indicator.references.any(_intel_source_id=source_id)
references_any(i, source_id) ==
    \E ref \in IntelReference : ref.id \in i.references /\ ref.source = source_id

\* Indicator.tags.any(value=search_tag)
tags_any(i, search_tag) ==
    \E tag \in Tag : tag.id \in i.tags /\ tag.value = search_tag

\* The conjunction of the filters read_indicators builds from the arguments.
ri_filters(i, args, store) ==
    LET has(k) == k \in DOMAIN args
    IN  /\ has("case_sensitive") => is_(i.case_sensitive, args.case_sensitive)
        /\ has("created_after") =>
               parse(args.created_after, date_max) < i.created_time
        /\ has("created_before") =>
               i.created_time < parse(args.created_before, date_min)
        /\ has("confidence") =>
               i.confidence = filter_id(store.confidence, args.confidence)
        /\ has("impact") => i.impact = filter_id(store.impact, args.impact)
        /\ has("modified_after") =>
               parse(args.modified_after, date_max) < i.modified_time
        /\ has("modified_before") =>
               i.modified_time < parse(args.modified_before, date_min)
        /\ has("sources") =>
               \A k \in 1..Len(args.sources) :
                   references_any(i, filter_id(IntelSource, args.sources[k]))
        /\ has("status") => i.status = filter_id(store.status, args.status)
        /\ has("substring") => is_(i.substring, args.substring)
        /\ has("tags") =>
               \A k \in 1..Len(args.tags) : tags_any(i, args.tags[k])
        /\ has("type") => i.type = filter_id(IndicatorType, args.type)
        /\ has("value") => like(i.value, args.value)

\* Indicator.to_collection_dict(query, ...): the items of the query; the
\* tables of the model fit in one page.
to_collection_dict(items) == items

\* GET /indicators
read_indicators(r, store, cfg) ==
    LET a == check_if_token_required("GET", r.token, cfg)
        query == {i \in store.indicators : ri_filters(i, r.body.data, store)}
    IN  IF a # None THEN Outcome(a, store)
        ELSE Outcome(ok_response(200, to_collection_dict(query)), store)

(***************************************************************************)
(* The requests the model sends.                                           *)
(***************************************************************************)
Methods == {"POST", "GET", "PUT", "DELETE"}

\* The values a client puts under a key of an indicator body.
BodyValues(k) ==
    IF k = "campaigns" THEN {<<"Derpsters">>, <<"nx">>}
    ELSE IF k = "references" THEN {<<"http://blog">>, <<"nx">>}
    ELSE IF k = "tags" THEN {<<"phish">>, <<"nx">>}
    ELSE IF k \in {"case_sensitive", "substring"} THEN BooleanStrings
    ELSE IF k \in TableNames THEN TaxValues
    ELSE IF k = "username" THEN {"analyst", "admin", "inactive", "nobody"}
    ELSE IF k = "type" THEN {"IP", "Domain", "nx"}
    ELSE {<<"e", "v", "i", "l">>}

\* The JSON objects with exactly the keys of keys.
RECURSIVE Objects(_)
Objects(keys) ==
    IF keys = {} THEN {EmptyObject}
    ELSE LET k == CHOOSE x \in keys : TRUE
         IN  {(k :> v) @@ o : v \in BodyValues(k), o \in Objects(keys \ {k})}

\* The JSON objects with at most n of the keys of keys.
ObjectsUpTo(keys, n) ==
    UNION {Objects(ks) : ks \in {x \in SUBSET keys : Cardinality(x) <= n}}

Request(op, tbl, id, body, token) ==
    [op |-> op, tbl |-> tbl, id |-> id, body |-> body, token |-> token]

NoRequest == Request("", "", 0, NoBody, NoToken)
NoResponse == ok_response(0, {})

\* The store a test starts from: the confidence and impact tables hold
\* their rows, the status table and the indicator table are empty.
EmptyStore ==
    [confidence |-> {[id |-> 1, value |-> "LOW"], [id |-> 2, value |-> "HIGH"]},
     impact |-> {[id |-> 1, value |-> "LOW"], [id |-> 2, value |-> "HIGH"]},
     status |-> {},
     indicators |-> {}]

NoRoles == [m \in Methods |-> NoRole]

\* The workers of the server, and what a worker that handles no request
\* holds.
Workers == {1, 2}
NoWork == [stage |-> "idle", rows |-> {}, resp |-> NoResponse]
NoPending == [w \in Workers |-> NoWork]

(***************************************************************************)
(* One action per route.  A request is handled while no response is        *)
(* pending: Send records the request and its response and replaces the     *)
(* store by the one the handler leaves.  Deliver hands the response to the *)
(* client and ends the request.  A request that would take a primary key   *)
(* beyond the bounds of the model is not sent.                             *)
(***************************************************************************)
Idle == req = NoRequest

WithinBounds(store) ==
    /\ \A i \in store.indicators : i.id \in IndIds
    /\ \A tbl \in TableNames : \A r \in store[tbl] : r.id \in Ids

Send(r, out) ==
    /\ Idle
    /\ WithinBounds(out.db)
    /\ req' = r
    /\ resp' = out.resp
    /\ db' = out.db
    /\ UNCHANGED <<config, clock, pending>>

\* The keys a new row may get; the one past the bound stands for all the
\* keys the model does not hold.
NewIds(rows, max) == new_ids(rows, 1..(max + 1))

CreateIndicatorStatus(tbl, body, token) ==
    \E newid \in NewIds(db[tbl], MaxId) :
        LET r == Request("create_indicator_status", tbl, 0, body, token)
        IN  Send(r, create_indicator_status(tbl, r, newid, db, config))

ReadIndicatorStatus(tbl, id, token) ==
    LET r == Request("read_indicator_status", tbl, id, NoBody, token)
    IN  Send(r, read_indicator_status(tbl, r, db, config))

ReadIndicatorStatuses(tbl, token) ==
    LET r == Request("read_indicator_statuses", tbl, 0, NoBody, token)
    IN  Send(r, read_indicator_statuses(tbl, r, db, config))

UpdateIndicatorStatus(tbl, id, body, token) ==
    LET r == Request("update_indicator_status", tbl, id, body, token)
    IN  Send(r, update_indicator_status(tbl, r, db, config))

DeleteIndicatorStatus(tbl, id, token) ==
    LET r == Request("delete_indicator_status", tbl, id, NoBody, token)
    IN  Send(r, delete_indicator_status(tbl, r, db, config))

CreateIndicator(body, token) ==
    \E newid \in NewIds(db.indicators, MaxInd) :
        LET r == Request("create_indicator", "", 0, body, token)
        IN  Send(r, create_indicator(r, newid, clock, db, config))

ReadIndicator(id, token) ==
    LET r == Request("read_indicator", "", id, NoBody, token)
    IN  Send(r, read_indicator(r, db, config))

ReadIndicators(args, token) ==
    LET r == Request("read_indicators", "", 0, Json(args), token)
    IN  Send(r, read_indicators(r, db, config))

UpdateIndicator(id, body, token) ==
    \E orm \in OrmNone :
        LET r == Request("update_indicator", "", id, body, token)
        IN  Send(r, update_indicator(r, clock, db, config, orm))

DeleteIndicator(id, token) ==
    LET r == Request("delete_indicator", "", id, NoBody, token)
    IN  Send(r, delete_indicator(r, db, config))

Deliver ==
    /\ ~Idle
    /\ req' = NoRequest
    /\ resp' = NoResponse
    /\ UNCHANGED <<db, config, clock, pending>>

\* Time passes between two requests.
Tick ==
    /\ Idle
    /\ clock < MaxTime
    /\ clock' = clock + 1
    /\ UNCHANGED <<db, config, req, resp, pending>>

(***************************************************************************)
(* Spec: indicators and the status table, without configured roles (the    *)
(* default configuration of the tests).  Indicator bodies carry the        *)
(* required keys and at most a status; updates carry a username or a       *)
(* status.                                                                 *)
(***************************************************************************)
Required == {"type", "username", "value"}

TaxBodies == {NoBody, Malformed} \cup {Json("value" :> v) : v \in TaxValues}

\* Bodies that lack a required key.
IncompleteBodies ==
    {NoBody} \cup
    {Json(o) : o \in UNION {Objects(Required \ {k}) : k \in Required}}

SpecCreateBodies ==
    {Json(b @@ o) : b \in Objects(Required),
                    o \in {EmptyObject} \cup Objects({"status"})}
        \cup IncompleteBodies

SpecUpdateBodies ==
    {NoBody} \cup
    {Json(o) : o \in Objects({"username"}) \cup Objects({"status"})
                        \cup Objects({"status", "username"})}

Routed == {"status"}

Init ==
    /\ db = EmptyStore
    /\ config = NoRoles
    /\ clock = 1
    /\ req = NoRequest
    /\ resp = NoResponse
    /\ pending = NoPending

Next ==
    \/ \E tbl \in Routed, body \in TaxBodies :
           CreateIndicatorStatus(tbl, body, NoToken)
    \/ \E tbl \in Routed, id \in Ids : ReadIndicatorStatus(tbl, id, NoToken)
    \/ \E tbl \in Routed : ReadIndicatorStatuses(tbl, NoToken)
    \/ \E tbl \in Routed, id \in Ids, body \in TaxBodies :
           UpdateIndicatorStatus(tbl, id, body, NoToken)
    \/ \E tbl \in Routed, id \in Ids : DeleteIndicatorStatus(tbl, id, NoToken)
    \/ \E body \in SpecCreateBodies : CreateIndicator(body, NoToken)
    \/ \E id \in IndIds : ReadIndicator(id, NoToken)
    \/ \E id \in IndIds, body \in SpecUpdateBodies :
           UpdateIndicator(id, body, NoToken)
    \/ \E id \in IndIds : DeleteIndicator(id, NoToken)
    \/ Deliver

Spec == Init /\ [][Next]_vars

(***************************************************************************)
(* Properties.  A step that handles a request leaves Idle: req' is the     *)
(* request, resp' its response, db the store before and db' the store      *)
(* after it.                                                               *)
(***************************************************************************)
Handles(op) == Idle /\ req'.op = op

Has(r, k) == k \in DOMAIN r.body.data

\* The request passes check_if_token_required under the configuration.
Authorized(r, method) ==
    config[method] = NoRole \/ (r.token.present /\ config[method] \in r.token.roles)

\* The (type, value) of a create_indicator body is the one of a stored row.
MatchesExisting(r, store) ==
    \E t \in IndicatorType : \E i \in store.indicators :
        t.value = r.body.data.type /\ i.type = t.id /\ i.value = r.body.data.value

NamesActiveUser(r) ==
    \E u \in User : u.username = r.body.data.username /\ u.active

NamesInactiveUser(r) ==
    \E u \in User : u.username = r.body.data.username /\ ~u.active

UniqueTypeValue ==
    \A i, j \in db.indicators :
        (i.type = j.type /\ i.value = j.value) => i = j

\* C1 as stated: every create_indicator whose (type, value) matches an
\* existing indicator responds 409 'Indicator already exists' and adds no
\* row, whatever its username.
C1_AsStated ==
    [][(Handles("create_indicator") /\ (Required \subseteq DOMAIN req'.body.data)
            /\ MatchesExisting(req', db))
        => (resp'.code = 409 /\ resp'.msg = "Indicator already exists"
            /\ db' = db)]_vars

\* C1 (amended): no two persisted indicators share the same (type, value)
\* pair; a create_indicator whose (type, value) matches an existing
\* indicator adds no row, and responds 409 'Indicator already exists' when
\* its username names an active user (the user is checked first: 404 for an
\* unknown user, 401 for an inactive one).
C1_UniqueTypeValue ==
    /\ []UniqueTypeValue
    /\ [][(Handles("create_indicator")
            /\ (Required \subseteq DOMAIN req'.body.data)
            /\ MatchesExisting(req', db))
          => /\ db' = db
             /\ resp'.code \in {401, 404, 409}
             /\ NamesActiveUser(req') =>
                    (resp'.code = 409 /\ resp'.msg = "Indicator already exists")
             /\ resp'.code = 409 => NamesActiveUser(req')]_vars

C1_Witness ==
    /\ req.op = "create_indicator"
    /\ resp.code = 409
    /\ Cardinality(db.indicators) = 2

UniqueTaxonomyValues ==
    \A tbl \in TableNames : \A r, q \in db[tbl] : r.value = q.value => r = q

\* C2: taxonomy values stay unique within their table; a taxonomy create
\* whose value already exists responds 409 and adds no row; a taxonomy
\* update of a row whose new value is already held by a row of the table,
\* the updated row included, responds 409 and changes no row (when the ID
\* addresses no row there is no row being updated: 404, and no change).
C2_UniqueTaxonomyValues ==
    /\ []UniqueTaxonomyValues
    /\ [][(Handles("create_indicator_status") /\ Has(req', "value")
            /\ \E q \in db[req'.tbl] : q.value = req'.body.data.value)
          => (resp'.code = 409 /\ db' = db)]_vars
    /\ [][(Handles("update_indicator_status") /\ Has(req', "value")
            /\ \E q \in db[req'.tbl] : q.value = req'.body.data.value)
          => /\ db' = db
             /\ IF \E q \in db[req'.tbl] : q.id = req'.id
                THEN resp'.code = 409 ELSE resp'.code = 404]_vars

\* An update of a row to the value it already has was answered 409.
C2_Witness ==
    /\ req.op = "update_indicator_status"
    /\ resp.code = 409
    /\ \E q \in db[req.tbl] : q.id = req.id /\ q.value = req.body.data.value

Referenced(store, tbl, id) == \E i \in store.indicators : i[tbl] = id

\* C3: a taxonomy delete of a row that an indicator references responds 409
\* and leaves the store unchanged; the delete of a row that no indicator
\* references (any more) responds 204 and removes that row alone.
C3_DeleteProtected ==
    [][(Handles("delete_indicator_status")
            /\ \E q \in db[req'.tbl] : q.id = req'.id)
        => IF Referenced(db, req'.tbl, req'.id)
           THEN resp'.code = 409 /\ db' = db
           ELSE /\ resp'.code = 204
                /\ db' = [db EXCEPT ![req'.tbl] = {q \in @ : q.id # req'.id}]]_vars

\* The delete of a referenced row was answered 409.
C3_Witness ==
    /\ req.op = "delete_indicator_status"
    /\ resp.code = 409
    /\ Referenced(db, req.tbl, req.id)

RequiredOf(op) ==
    IF op = "create_indicator" THEN Required ELSE {"value"}

MethodOf(op) ==
    IF op \in {"create_indicator", "create_indicator_status"} THEN "POST"
    ELSE IF op \in {"update_indicator", "update_indicator_status"} THEN "PUT"
    ELSE IF op \in {"delete_indicator", "delete_indicator_status"} THEN "DELETE"
    ELSE "GET"

\* C10: a taxonomy create, taxonomy update or indicator create that passes
\* authorization with a body that lacks a required key responds 400 with
\* 'Request must include "<key>"' for a key the body lacks, and the store
\* is unchanged, whether or not the addressed row exists.
C10_MissingRequired ==
    [][(/\ Idle
        /\ req'.op \in {"create_indicator_status", "update_indicator_status",
                        "create_indicator"}
        /\ req'.body.kind # "malformed"
        /\ Authorized(req', MethodOf(req'.op))
        /\ ~(RequiredOf(req'.op) \subseteq DOMAIN req'.body.data))
        => /\ resp'.code = 400
           /\ \E k \in RequiredOf(req'.op) \ DOMAIN req'.body.data :
                  resp'.msg = "Request must include \"" \o k \o "\""
           /\ db' = db]_vars

\* A taxonomy update without a value of a row that exists was answered 400
\* to a client that holds the role configured for PUT.
C10_Witness ==
    /\ req.op = "update_indicator_status"
    /\ config["PUT"] # NoRole
    /\ ~Has(req, "value")
    /\ resp.code = 400
    /\ \E q \in db[req.tbl] : q.id = req.id

(***************************************************************************)
(* SpecCreate: create_indicator with bodies that carry at most one         *)
(* optional key, while the status table is created and deleted.            *)
(***************************************************************************)
Optional == {"campaigns", "case_sensitive", "confidence", "impact",
             "references", "status", "substring", "tags"}

OneOptional == {EmptyObject} \cup UNION {Objects({k}) : k \in Optional}

\* The "IP" bodies carry any one optional key; the others a status at most.
RichCreateBodies ==
    {Json(b @@ o) : b \in {x \in Objects(Required) :
                             x.type = "IP" /\ x.username # "admin"},
                    o \in OneOptional}
      \cup
    {Json(b @@ o) : b \in {x \in Objects(Required) :
                             x.type # "IP" /\ x.username \in {"analyst", "inactive"}},
                    o \in {EmptyObject} \cup Objects({"status"}) \cup Objects({"tags"})}

NextCreate ==
    \/ \E body \in TaxBodies : CreateIndicatorStatus("status", body, NoToken)
    \/ \E id \in Ids : DeleteIndicatorStatus("status", id, NoToken)
    \/ \E body \in RichCreateBodies : CreateIndicator(body, NoToken)
    \/ \E id \in IndIds : DeleteIndicator(id, NoToken)
    \/ Deliver

SpecCreate == Init /\ [][NextCreate]_vars

\* The row create_indicator added.
Created == db'.indicators \ db.indicators

MinId(rows) == CHOOSE n \in {r.id : r \in rows} : \A r \in rows : n <= r.id

\* C4: a successful create_indicator assigns, for each of confidence, impact
\* and status the body omits, the row of lowest ID of that table, and for
\* each one it supplies the row whose value is the supplied name; an
\* omitted case_sensitive or substring is stored as false.
C4_Defaults ==
    [][(Handles("create_indicator") /\ resp'.code = 201)
        => /\ Cardinality(Created) = 1
           /\ resp'.data = Created
           /\ \A i \in Created :
                /\ \A f \in TableNames :
                     IF Has(req', f)
                     THEN \E r \in db[f] :
                              r.value = req'.body.data[f] /\ i[f] = r.id
                     ELSE db[f] # {} /\ i[f] = MinId(db[f])
                /\ \A f \in {"case_sensitive", "substring"} :
                     IF Has(req', f)
                     THEN i[f] = (req'.body.data[f] = "true")
                     ELSE i[f] = FALSE]_vars

\* An indicator was created without a status while the status table held
\* two rows.
C4_Witness ==
    /\ req.op = "create_indicator"
    /\ resp.code = 201
    /\ ~Has(req, "status")
    /\ Cardinality(db.status) = 2

Resolves(k, name) ==
    IF k = "campaigns" THEN \E c \in Campaign : c.name = name
    ELSE IF k = "references" THEN \E c \in IntelReference : c.reference = name
    ELSE \E c \in Tag : c.value = name

TypeResolves(r) == \E t \in IndicatorType : t.value = r.body.data.type

UserResolves(r) == \E u \in User : u.username = r.body.data.username

\* A confidence, impact, status or array element the body supplies
\* resolves to no row.
OptionalUnresolved(r, store) ==
    \/ \E f \in TableNames :
           Has(r, f) /\ ~\E q \in store[f] : q.value = r.body.data[f]
    \/ \E k \in Arrays :
           Has(r, k) /\ \E n \in 1..Len(r.body.data[k]) :
                            ~Resolves(k, r.body.data[k][n])

Unresolved(r, store) ==
    ~TypeResolves(r) \/ ~UserResolves(r) \/ OptionalUnresolved(r, store)

UserOf(i) == CHOOSE u \in User : u.id = i.user

NoInactiveOwner == \A i \in db.indicators : UserOf(i).active

\* Every key of an update_indicator body other than the username resolves.
OthersResolve(r, store) ==
    /\ \A f \in TableNames :
           Has(r, f) => \E q \in store[f] : q.value = r.body.data[f]
    /\ \A k \in Arrays :
           Has(r, k) => \A n \in 1..Len(r.body.data[k]) :
                            Resolves(k, r.body.data[k][n])

\* C7 as stated: every create_indicator and update_indicator that names an
\* existing but inactive username responds 401.
C7_AsStated ==
    [][(/\ Idle
        /\ \/ req'.op = "create_indicator"
                 /\ (Required \subseteq DOMAIN req'.body.data)
           \/ req'.op = "update_indicator" /\ Has(req', "username")
        /\ NamesInactiveUser(req'))
        => resp'.code = 401]_vars

\* C7 (amended): no indicator is ever attributed to an inactive user by a
\* request; a create_indicator or update_indicator that names an existing
\* but inactive username is answered with an error and changes nothing.
\* The error is 401 when the checks before the user's pass (create: the
\* type resolves; update: the indicator exists and every other key of the
\* body resolves); otherwise it is the error of the earlier check that
\* fails: 404, or 500 when an unresolved element of a list makes the flush
\* fail.
C7_InactiveUser ==
    /\ []NoInactiveOwner
    /\ [][(Handles("create_indicator")
            /\ (Required \subseteq DOMAIN req'.body.data)
            /\ NamesInactiveUser(req'))
          => /\ db' = db
             /\ IF TypeResolves(req')
                THEN /\ resp'.code = 401
                     /\ resp'.msg =
                          "Cannot create an indicator with an inactive user"
                ELSE resp'.code = 404]_vars
    /\ [][(Handles("update_indicator") /\ Has(req', "username")
            /\ NamesInactiveUser(req'))
          => /\ db' = db
             /\ resp'.code \in {401, 404, 500}
             /\ (\E i \in db.indicators : i.id = req'.id)
                    /\ OthersResolve(req', db)
                => /\ resp'.code = 401
                   /\ resp'.msg =
                        "Cannot update an indicator with an inactive user"
             /\ ~(\E i \in db.indicators : i.id = req'.id)
                => resp'.code = 404]_vars

\* An update of an existing indicator to an inactive user was answered 401.
C7_Witness ==
    /\ req.op = "update_indicator"
    /\ Has(req, "username")
    /\ NamesInactiveUser(req)
    /\ resp.code = 401
    /\ \E i \in db.indicators : i.id = req.id

(***************************************************************************)
(* SpecUpdate: one update_indicator, sent to a store that earlier requests *)
(* have filled: the status table holds two rows, an "IP" indicator was     *)
(* created with at most two optional keys and a "Domain" indicator may     *)
(* have been created after it.                                             *)
(***************************************************************************)
StatusCreated(store, value, id) ==
    create_status_body("status", [value |-> value], id, store).db

IndicatorCreated(store, body, id, now) ==
    create_indicator_body(body, id, now, store).db

FilledTables == StatusCreated(StatusCreated(EmptyStore, "LOW", 1), "HIGH", 2)

FirstBodies ==
    {("type" :> "IP") @@ ("username" :> "analyst")
        @@ ("value" :> <<"e", "v", "i", "l">>) @@ o :
        o \in ObjectsUpTo(Optional, 2)}

SecondBodies ==
    {("type" :> "Domain") @@ ("username" :> "admin")
        @@ ("value" :> <<"e", "v", "i", "l">>) @@ o :
        o \in {EmptyObject,
               [campaigns |-> <<"Derpsters">>, case_sensitive |-> "true",
                confidence |-> "HIGH", impact |-> "HIGH",
                references |-> <<"http://blog">>, status |-> "HIGH",
                substring |-> "true", tags |-> <<"phish">>]}}

FilledStores ==
    LET one == {IndicatorCreated(FilledTables, b, 1, 1) : b \in FirstBodies}
    IN  one \cup {IndicatorCreated(st, b, 2, 1) : st \in one, b \in SecondBodies}

RichUpdateBodies ==
    {NoBody} \cup
    {Json(o) : o \in ObjectsUpTo(Optional \cup {"username"}, 1)}

InitUpdate ==
    /\ db \in FilledStores
    /\ config = NoRoles
    /\ clock = 1
    /\ req = NoRequest
    /\ resp = NoResponse
    /\ pending = NoPending

NextUpdate ==
    \/ Tick
    \/ \E id \in IndIds, body \in RichUpdateBodies :
           UpdateIndicator(id, body, NoToken)

SpecUpdate == InitUpdate /\ [][NextUpdate]_vars

\* The column of the indicator row a key of the update body is stored in.
ColumnOf(k) == IF k = "username" THEN "user" ELSE k

\* Every field of an indicator but modified_time.
Fields == {"id", "type", "value", "user", "confidence", "impact", "status",
           "case_sensitive", "substring", "campaigns", "references", "tags",
           "created_time"}

\* What the key k with the value v of an update body stands for.
Denotes(k, v, x, store) ==
    IF k \in TableNames THEN \E q \in store[k] : q.value = v /\ q.id = x
    ELSE IF k \in {"case_sensitive", "substring"} THEN x = (v = "true")
    ELSE IF k = "username" THEN \E u \in User : u.username = v /\ u.id = x
    ELSE IF k = "campaigns"
         THEN x = {c.id : c \in {c \in Campaign :
                                   \E n \in 1..Len(v) : c.name = v[n]}}
    ELSE IF k = "references"
         THEN x = {c.id : c \in {c \in IntelReference :
                                   \E n \in 1..Len(v) : c.reference = v[n]}}
    ELSE x = {c.id : c \in {c \in Tag : \E n \in 1..Len(v) : c.value = v[n]}}

\* C5: a successful update_indicator whose body holds exactly one key sets
\* the field of that key in the addressed indicator and leaves every other
\* field of it, every other indicator and every taxonomy row unchanged; a
\* successful update with an empty body changes nothing.
C5_SingleField ==
    [][(Handles("update_indicator") /\ resp'.code = 200)
        => LET data == req'.body.data
           IN  /\ \A tbl \in TableNames : db'[tbl] = db[tbl]
               /\ DOMAIN data = {} => db' = db
               /\ \A k \in DOMAIN data :
                    DOMAIN data = {k} =>
                      \E old \in db.indicators : \E new \in db'.indicators :
                        /\ old.id = req'.id /\ new.id = req'.id
                        /\ db'.indicators = (db.indicators \ {old}) \cup {new}
                        /\ \A f \in Fields \ {ColumnOf(k)} : new[f] = old[f]
                        /\ Denotes(k, data[k], new[ColumnOf(k)], db)
                        /\ resp'.data = {new}]_vars

\* A one-key update changed a column of one of two indicators.
C5_Witness ==
    /\ req.op = "update_indicator"
    /\ resp.code = 200
    /\ Cardinality(DOMAIN req.body.data) = 1
    /\ Cardinality(db.indicators) = 2
    /\ \E i \in db.indicators :
           i.id = req.id /\ i.modified_time > i.created_time

(***************************************************************************)
(* SpecAuth: every route under a configuration that may require a role for *)
(* each HTTP method, called without a token, with a token that holds the   *)
(* role "analyst" and with one that holds "analyst" and "admin".           *)
(***************************************************************************)
Roles == {"analyst", "admin"}

Configs ==
    {NoRoles} \cup {[m \in Methods |-> role] : role \in Roles}
        \cup {[NoRoles EXCEPT ![m] = "admin"] : m \in Methods}

Tokens == {NoToken, TokenOf({"analyst"}), TokenOf({"analyst", "admin"})}

AuthCreateBodies ==
    IncompleteBodies \cup
    {Json([type |-> "IP", username |-> "analyst", value |-> <<"e", "v", "i", "l">>]),
     Json([type |-> "IP", username |-> "analyst", value |-> <<"e", "v", "i", "l">>,
           status |-> "LOW"])}

AuthUpdateBodies == {NoBody, Json([status |-> "HIGH"])}

InitAuth ==
    /\ db = EmptyStore
    /\ config \in Configs
    /\ clock = 1
    /\ req = NoRequest
    /\ resp = NoResponse
    /\ pending = NoPending

NextAuth ==
    \/ \E tbl \in Routed, body \in TaxBodies, token \in Tokens :
           CreateIndicatorStatus(tbl, body, token)
    \/ \E tbl \in Routed, id \in Ids, token \in Tokens :
           ReadIndicatorStatus(tbl, id, token)
    \/ \E tbl \in Routed, token \in Tokens : ReadIndicatorStatuses(tbl, token)
    \/ \E tbl \in Routed, id \in Ids, body \in TaxBodies, token \in Tokens :
           UpdateIndicatorStatus(tbl, id, body, token)
    \/ \E tbl \in Routed, id \in Ids, token \in Tokens :
           DeleteIndicatorStatus(tbl, id, token)
    \/ \E body \in AuthCreateBodies, token \in Tokens : CreateIndicator(body, token)
    \/ \E id \in IndIds, token \in Tokens : ReadIndicator(id, token)
    \/ \E token \in Tokens : ReadIndicators(EmptyObject, token)
    \/ \E id \in IndIds, body \in AuthUpdateBodies, token \in Tokens :
           UpdateIndicator(id, body, token)
    \/ \E id \in IndIds, token \in Tokens : DeleteIndicator(id, token)
    \/ Deliver

SpecAuth == InitAuth /\ [][NextAuth]_vars

\* The addressed row of a request that addresses one.
Addressed(r, store) ==
    IF r.tbl \in TableNames THEN {q \in store[r.tbl] : q.id = r.id}
    ELSE {i \in store.indicators : i.id = r.id}

\* C9: when a role is configured for the HTTP method of a request, a
\* request without a token is answered 401 'Missing Authorization Header'
\* and a request whose token lacks the role 401 '<role> role required',
\* whatever its body and whether or not the addressed row exists, and the
\* store is unchanged.
C9_AuthorizedFirst ==
    [][(Idle /\ req'.op # "" /\ config[MethodOf(req'.op)] # NoRole)
        => LET role == config[MethodOf(req'.op)]
           IN  /\ ~req'.token.present =>
                    /\ resp' = error_response(401, "Missing Authorization Header")
                    /\ db' = db
               /\ (req'.token.present /\ role \notin req'.token.roles) =>
                    /\ resp' = error_response(401, role \o " role required")
                    /\ db' = db]_vars

\* A taxonomy update without a body of a row that does not exist, sent with
\* a token that lacks the role, was answered 401.
C9_Witness ==
    /\ req.op = "update_indicator_status"
    /\ req.body = NoBody
    /\ Addressed(req, db) = {}
    /\ req.token.present
    /\ config["PUT"] \notin req.token.roles
    /\ resp = error_response(401, "admin role required")

(***************************************************************************)
(* SpecRead: read_indicators with at most two query arguments, on a store  *)
(* that earlier requests have filled with up to two indicators.            *)
(***************************************************************************)
FilterKeys == {"case_sensitive", "created_after", "created_before",
               "confidence", "impact", "modified_after", "modified_before",
               "sources", "status", "substring", "tags", "type", "value"}

\* The values a client puts under a key of the query string.
ArgValues(k) ==
    IF k \in {"case_sensitive", "substring"} THEN BooleanStrings \cup {"maybe"}
    ELSE IF k \in {"created_after", "modified_after"} THEN {DateArg(1), BadDate}
    ELSE IF k \in {"created_before", "modified_before"}
         THEN {DateArg(MaxTime), BadDate}
    ELSE IF k \in TableNames THEN TaxValues \cup {"nx"}
    ELSE IF k = "sources"
         THEN {<<"OSINT">>, <<"Vendor">>, <<"nx">>, <<"OSINT", "nx">>}
    ELSE IF k = "tags" THEN {<<"phish">>, <<"nx">>, <<"phish", "nx">>}
    ELSE IF k = "type" THEN {"IP", "Domain", "nx"}
    ELSE {<<"v", "i">>, <<"x">>}

Args ==
    {EmptyObject}
        \cup UNION {{k :> v : v \in ArgValues(k)} : k \in FilterKeys}
        \cup UNION {IF k = j THEN {}
                    ELSE {(k :> v) @@ (j :> w) :
                             v \in ArgValues(k), w \in ArgValues(j)} :
                    k \in FilterKeys, j \in FilterKeys}

ReadStores ==
    LET one == {IndicatorCreated(FilledTables, b, 1, 1) :
                   b \in {b \in FirstBodies : Cardinality(DOMAIN b) <= 4}}
    IN  one \cup {IndicatorCreated(st, b, 2, t) :
                     st \in one, b \in SecondBodies, t \in 1..MaxTime}

InitRead ==
    /\ db \in ReadStores
    /\ config = NoRoles
    /\ clock = 1
    /\ req = NoRequest
    /\ resp = NoResponse
    /\ pending = NoPending

NextRead ==
    \/ \E args \in Args : ReadIndicators(args, NoToken)
    \/ Deliver

SpecRead == InitRead /\ [][NextRead]_vars

\* The filters whose value is looked up in a table.
NaturalKeys == {"confidence", "impact", "status", "type", "sources", "tags"}

\* The value of a filter names rows of its table.
NamesRows(k, v, store) ==
    IF k \in TableNames THEN \E q \in store[k] : q.value = v
    ELSE IF k = "type" THEN \E t \in IndicatorType : t.value = v
    ELSE IF k = "sources"
         THEN \A n \in 1..Len(v) : \E src \in IntelSource : src.value = v[n]
    ELSE \A n \in 1..Len(v) : \E tag \in Tag : tag.value = v[n]

\* The indicator i satisfies the filter k with the value v.
Satisfies(i, k, v, store) ==
    IF k \in TableNames THEN \E q \in store[k] : q.value = v /\ i[k] = q.id
    ELSE IF k = "type"
         THEN \E t \in IndicatorType : t.value = v /\ i.type = t.id
    ELSE IF k = "sources"
         THEN \A n \in 1..Len(v) :
                  \E src \in IntelSource : \E ref \in IntelReference :
                      src.value = v[n] /\ ref.source = src.id
                          /\ ref.id \in i.references
    ELSE IF k = "tags"
         THEN \A n \in 1..Len(v) :
                  \E tag \in Tag : tag.value = v[n] /\ tag.id \in i.tags
    ELSE IF k \in {"case_sensitive", "substring"}
         THEN (v = "true" /\ i[k]) \/ (v = "false" /\ ~i[k])
    ELSE IF k = "created_after" THEN v.parses /\ i.created_time > v.t
    ELSE IF k = "created_before" THEN v.parses /\ i.created_time < v.t
    ELSE IF k = "modified_after" THEN v.parses /\ i.modified_time > v.t
    ELSE IF k = "modified_before" THEN v.parses /\ i.modified_time < v.t
    ELSE \E a \in 0..Len(i.value) : \E b \in a..Len(i.value) :
             SubSeq(i.value, a + 1, b) = v

\* C8: read_indicators answers 200 and changes nothing; with a confidence,
\* impact, status, type, sources or tags filter whose value names no row it
\* returns no indicator, whatever the other filters; in every case it
\* returns exactly the indicators that satisfy every supplied filter (a
\* date or boolean that does not parse is satisfied by no indicator).
C8_Filters ==
    [][Handles("read_indicators")
        => LET args == req'.body.data
           IN  /\ resp'.code = 200
               /\ db' = db
               /\ (\E k \in NaturalKeys \cap DOMAIN args :
                       ~NamesRows(k, args[k], db)) => resp'.data = {}
               /\ resp'.data =
                      {i \in db.indicators :
                           \A k \in DOMAIN args : Satisfies(i, k, args[k], db)}]_vars

\* A read with a status that names no row and a type that an indicator has
\* was answered with no indicator.
C8_Witness ==
    /\ req.op = "read_indicators"
    /\ resp.code = 200
    /\ resp.data = {}
    /\ DOMAIN req.body.data = {"status", "type"}
    /\ req.body.data.status = "nx"
    /\ \E i \in db.indicators : \E t \in IndicatorType :
           t.value = req.body.data.type /\ i.type = t.id

(***************************************************************************)
(* The life of a taxonomy row, under Spec.                                 *)
(***************************************************************************)
\* The primary keys a table holds.
IdsOf(rows) == {q.id : q \in rows}

\* C11: the rows of a taxonomy table are those that a successful create
\* added and no successful delete removed: the keys of a table change only
\* by a create answered 201, which adds one row under a new key, and by a
\* delete answered 204, which removes the addressed row.  A read by ID is
\* answered 200 with the ID and the current value exactly when the table
\* holds a row of that ID, and 404 otherwise; an update (with a value) and
\* a delete of an ID that the table does not hold are answered 404 and
\* change nothing; the collection read returns exactly the rows present.
C11_RowLifecycle ==
    /\ [][\A tbl \in TableNames :
            IdsOf(db'[tbl]) # IdsOf(db[tbl]) =>
              /\ req'.tbl = tbl
              /\ \/ /\ req'.op = "create_indicator_status"
                    /\ resp'.code = 201
                    /\ \E row \in db'[tbl] :
                         /\ row.id \notin IdsOf(db[tbl])
                         /\ row.value = req'.body.data.value
                         /\ db'[tbl] = db[tbl] \cup {row}
                         /\ resp'.data = {row}
                 \/ /\ req'.op = "delete_indicator_status"
                    /\ resp'.code = 204
                    /\ db'[tbl] = {q \in db[tbl] : q.id # req'.id}]_vars
    /\ [][(Handles("create_indicator_status") /\ resp'.code = 201)
            => IdsOf(db'[req'.tbl]) # IdsOf(db[req'.tbl])]_vars
    /\ [][(Handles("delete_indicator_status") /\ resp'.code = 204)
            => req'.id \in IdsOf(db[req'.tbl]) \ IdsOf(db'[req'.tbl])]_vars
    /\ [][Handles("read_indicator_status")
            => /\ db' = db
               /\ IF req'.id \in IdsOf(db[req'.tbl])
                  THEN /\ resp'.code = 200
                       /\ \E q \in db[req'.tbl] :
                              q.id = req'.id /\ resp'.data = {q}
                  ELSE resp'.code = 404]_vars
    /\ [][(/\ Idle
           /\ \/ req'.op = "update_indicator_status" /\ Has(req', "value")
              \/ req'.op = "delete_indicator_status"
           /\ req'.id \notin IdsOf(db[req'.tbl]))
            => (resp'.code = 404 /\ db' = db)]_vars
    /\ [][Handles("read_indicator_statuses")
            => (resp'.code = 200 /\ resp'.data = db[req'.tbl] /\ db' = db)]_vars

\* A read by an ID that the table does not hold, while it holds another
\* row, was answered 404.
C11_Witness ==
    /\ req.op = "read_indicator_status"
    /\ resp.code = 404
    /\ db[req.tbl] # {}
    /\ req.id \notin IdsOf(db[req.tbl])

(***************************************************************************)
(* SpecTaxonomy: the status table with three values for two keys, so that  *)
(* a row can be renamed while another row exists, and indicators that      *)
(* reference its rows.                                                     *)
(***************************************************************************)
RenameBodies == {Json("value" :> v) : v \in TaxValues \cup {"MEDIUM"}}

ReferringBodies ==
    {Json([type |-> "IP", username |-> "analyst", value |-> <<"e", "v", "i", "l">>]
            @@ o) : o \in {EmptyObject} \cup Objects({"status"})}

NextTaxonomy ==
    \/ \E tbl \in Routed, body \in RenameBodies :
           CreateIndicatorStatus(tbl, body, NoToken)
    \/ \E tbl \in Routed, id \in Ids : ReadIndicatorStatus(tbl, id, NoToken)
    \/ \E tbl \in Routed, id \in Ids, body \in RenameBodies :
           UpdateIndicatorStatus(tbl, id, body, NoToken)
    \/ \E tbl \in Routed, id \in Ids : DeleteIndicatorStatus(tbl, id, NoToken)
    \/ \E body \in ReferringBodies : CreateIndicator(body, NoToken)
    \/ \E id \in IndIds : DeleteIndicator(id, NoToken)
    \/ Deliver

SpecTaxonomy == Init /\ [][NextTaxonomy]_vars

\* C12: a taxonomy update of a row that exists, with a value that no row of
\* the table holds, responds 200 with the row's ID and the new value, puts
\* the new value in that row and changes nothing else: the other rows of
\* the table, the other tables and every indicator, those that reference
\* the row included, are as before.  The row holds the new value while the
\* response is pending, and a read by ID returns the row as stored.
C12_Rename ==
    /\ [][(/\ Handles("update_indicator_status")
           /\ Has(req', "value")
           /\ req'.id \in IdsOf(db[req'.tbl])
           /\ \A q \in db[req'.tbl] : q.value # req'.body.data.value)
          => LET new == [id |-> req'.id, value |-> req'.body.data.value]
             IN  /\ resp' = ok_response(200, {new})
                 /\ db' = [db EXCEPT ![req'.tbl] =
                              {q \in @ : q.id # req'.id} \cup {new}]
                 /\ \A i \in db.indicators :
                        i[req'.tbl] = req'.id =>
                            \E j \in db'.indicators :
                                j = i /\ j[req'.tbl] = new.id]_vars
    /\ []((req.op = "update_indicator_status" /\ resp.code = 200)
            => \E q \in db[req.tbl] :
                   q.id = req.id /\ q.value = req.body.data.value)
    /\ [][(Handles("read_indicator_status") /\ resp'.code = 200)
            => \E q \in db[req'.tbl] : q.id = req'.id /\ resp'.data = {q}]_vars

\* A row that an indicator references was renamed while the table held
\* another row.
C12_Witness ==
    /\ req.op = "update_indicator_status"
    /\ resp.code = 200
    /\ Cardinality(db[req.tbl]) = 2
    /\ Referenced(db, req.tbl, req.id)

(***************************************************************************)
(* SpecUpdateMany: one update_indicator with up to two keys, whose values  *)
(* resolve or not, on a store with two indicators.                         *)
(***************************************************************************)
\* The values a client puts under a key of an update body.
UpdateValues(k) ==
    IF k \in TableNames THEN {"HIGH", "nx"}
    ELSE IF k \in {"case_sensitive", "substring"} THEN {"true"}
    ELSE IF k = "username" THEN {"admin", "inactive", "nobody"}
    ELSE BodyValues(k)

UpdateKeys == Optional \cup {"username"}

\* Bodies that carry the type or the value of an indicator, alone or with
\* a key of the update schema.
TypedBodies ==
    {Json(b @@ o) :
        b \in {[type |-> "Domain"], [type |-> "IP"],
               [value |-> <<"e", "v", "i", "l">>], [value |-> <<"x">>],
               [type |-> "Domain", value |-> <<"x">>]},
        o \in {EmptyObject, [status |-> "HIGH"]}}

ManyBodies ==
    {NoBody} \cup TypedBodies
        \cup UNION {{Json(k :> v) : v \in UpdateValues(k)} : k \in UpdateKeys}
        \cup UNION {IF k = j THEN {}
                    ELSE {Json((k :> v) @@ (j :> w)) :
                             v \in UpdateValues(k), w \in UpdateValues(j)} :
                    k \in UpdateKeys, j \in UpdateKeys}

ManyStores ==
    LET plain == [type |-> "IP", username |-> "analyst",
                  value |-> <<"e", "v", "i", "l">>]
        one == IndicatorCreated(FilledTables, plain, 1, 1)
    IN  {IndicatorCreated(one, b, 2, 1) : b \in SecondBodies}

InitMany ==
    /\ db \in ManyStores
    /\ config = NoRoles
    /\ clock = 1
    /\ req = NoRequest
    /\ resp = NoResponse
    /\ pending = NoPending

NextMany ==
    \/ Tick
    \/ \E id \in IndIds, body \in ManyBodies : UpdateIndicator(id, body, NoToken)

SpecUpdateMany == InitMany /\ [][NextMany]_vars

\* A confidence, impact, status or username of the body fails its check.
FailsCheck(r, store) ==
    \/ \E f \in TableNames :
           Has(r, f) /\ \A q \in store[f] : q.value # r.body.data[f]
    \/ Has(r, "username") /\ ~NamesActiveUser(r)

\* Every element of every list of the body resolves.
ListsResolve(r) ==
    \A k \in Arrays :
        Has(r, k) => \A n \in 1..Len(r.body.data[k]) : Resolves(k, r.body.data[k][n])

\* C13: an update_indicator that is answered with an error leaves the
\* store as it was; an update of an existing indicator whose confidence,
\* impact, status or username is not found, or whose username is inactive,
\* is answered with an error (404 or 401 when the lists of the body
\* resolve), whatever other keys the body supplies, so that none of them is
\* visible in the persisted indicator.
C13_AllOrNothing ==
    /\ [][(Handles("update_indicator") /\ resp'.code # 200) => db' = db]_vars
    /\ [][(/\ Handles("update_indicator")
           /\ req'.id \in IdsOf(db.indicators)
           /\ FailsCheck(req', db))
          => /\ resp'.code \in {401, 404, 500}
             /\ ListsResolve(req') => resp'.code \in {401, 404}
             /\ db' = db]_vars

\* An update with a confidence that differs from the stored one and an
\* inactive username was answered 401, and the stored confidence is the
\* old one.
C13_Witness ==
    /\ req.op = "update_indicator"
    /\ resp.code = 401
    /\ Has(req, "confidence")
    /\ \E i \in db.indicators : \E q \in db.confidence :
           /\ i.id = req.id
           /\ q.value = req.body.data.confidence
           /\ i.confidence # q.id

\* The lists of the indicator of that ID.
ListsOf(store, id) ==
    {[k \in Arrays |-> i[k]] : i \in {i \in store.indicators : i.id = id}}

\* C14: an update_indicator of an existing indicator with a campaigns,
\* references or tags list that holds a name resolving to no row responds
\* 404 and leaves the campaigns, references and tags of the indicator as
\* they were.
C14_UnresolvedList ==
    [][(/\ Handles("update_indicator")
        /\ req'.id \in IdsOf(db.indicators)
        /\ ~ListsResolve(req'))
        => /\ resp'.code = 404
           /\ ListsOf(db', req'.id) = ListsOf(db, req'.id)]_vars

(***************************************************************************)
(* SpecRace: two workers handle create_indicator requests at the same      *)
(* time.  A worker runs the checks of the handler on the store as it is    *)
(* (CheckCreate, lines 57-147 of indicator.py) and commits in a later step *)
(* (CommitCreate, lines 149-155), when the store may hold what the other   *)
(* worker committed in between.                                            *)
(***************************************************************************)
RaceBodies ==
    {Json(b @@ o) :
        b \in {b \in Objects(Required) : b.username \in {"analyst", "nobody"}},
        o \in {EmptyObject, [status |-> "HIGH"]}}

\* db.session.add(indicator); db.session.commit() and the response: the
\* row gets its key, and a constraint that the store refuses raises
\* IntegrityError, which create_indicator does not catch.
commit_indicator(rows, newid, store) ==
    LET indicator == [(CHOOSE i \in rows : TRUE) EXCEPT !.id = newid]
        new == [store EXCEPT !.indicators = @ \cup {indicator}]
    IN  IF ~integrity_ok(new)
        THEN Outcome(error_response(500, "IntegrityError"), store)
        ELSE Outcome(ok_response(201, {indicator}), new)

CheckCreate(w, body) ==
    /\ pending[w].stage = "idle"
    /\ LET r == Request("create_indicator", "", 0, body, NoToken)
           free == NewIds(db.indicators, MaxInd)
           newid == CHOOSE i \in free : \A j \in free : i <= j
           out == create_indicator(r, newid, clock, db, config)
       IN  pending' = [pending EXCEPT ![w] =
                IF out.resp.code = 201
                THEN [stage |-> "checked", rows |-> out.resp.data,
                      resp |-> NoResponse]
                ELSE [stage |-> "done", rows |-> {}, resp |-> out.resp]]
    /\ UNCHANGED <<db, config, clock, req, resp>>

CommitCreate(w) ==
    /\ pending[w].stage = "checked"
    /\ \E newid \in NewIds(db.indicators, MaxInd) :
           LET out == commit_indicator(pending[w].rows, newid, db)
           IN  /\ WithinBounds(out.db)
               /\ db' = out.db
               /\ pending' = [pending EXCEPT ![w] =
                      [stage |-> "done", rows |-> {}, resp |-> out.resp]]
    /\ UNCHANGED <<config, clock, req, resp>>

\* The worker sends its response and is free for the next request.
Respond(w) ==
    /\ pending[w].stage = "done"
    /\ pending' = [pending EXCEPT ![w] = NoWork]
    /\ UNCHANGED <<db, config, clock, req, resp>>

InitRace ==
    /\ db = FilledTables
    /\ config = NoRoles
    /\ clock = 1
    /\ req = NoRequest
    /\ resp = NoResponse
    /\ pending = NoPending

NextRace ==
    \/ \E w \in Workers, body \in RaceBodies : CheckCreate(w, body)
    \/ \E w \in Workers : CommitCreate(w)
    \/ \E w \in Workers : Respond(w)

SpecRace == InitRace /\ [][NextRace]_vars

\* The worker w commits an indicator whose (type, value) the store holds.
CommitsDuplicate(w) ==
    /\ pending[w].stage = "checked"
    /\ pending'[w].stage = "done"
    /\ \E row \in pending[w].rows : \E i \in db.indicators :
           i.type = row.type /\ i.value = row.value

\* C15: when two create_indicator requests for the same (type, value) both
\* pass the existence check before either commits, at most one indicator
\* with that pair is persisted, and the request that commits second
\* responds 409 and leaves the store unchanged.
C15_Race ==
    /\ []UniqueTypeValue
    /\ [][\A w \in Workers :
            CommitsDuplicate(w) =>
                (pending'[w].resp.code = 409 /\ db' = db)]_vars

\* The rows of the same ID before and after a step have the same type and
\* value.
KeepsIdentity ==
    \A i \in db.indicators : \A j \in db'.indicators :
        i.id = j.id => (i.type = j.type /\ i.value = j.value)

\* C16: the type and the value of the indicator of an ID never change: an
\* update_indicator whose body carries type or value is answered 400 and
\* changes nothing, no update_indicator changes the type or the value of
\* an indicator or the IDs the table holds, and no two indicators share a
\* (type, value) pair.
C16_Identity ==
    /\ [][KeepsIdentity]_vars
    /\ [][(Handles("update_indicator")
            /\ (Has(req', "type") \/ Has(req', "value")))
          => (resp'.code = 400 /\ db' = db)]_vars
    /\ [][Handles("update_indicator")
          => IdsOf(db'.indicators) = IdsOf(db.indicators)]_vars
    /\ []UniqueTypeValue

\* An update that carries the type of the other indicator, which has the
\* same value, was answered 400.
C16_Witness ==
    /\ req.op = "update_indicator"
    /\ resp.code = 400
    /\ Has(req, "type")
    /\ \E i, j \in db.indicators : \E t \in IndicatorType :
           /\ i.id = req.id /\ j.id # req.id
           /\ t.value = req.body.data.type
           /\ j.type = t.id /\ j.value = i.value /\ i.type # t.id

\* Every indicator references a type, a user, a confidence, an impact and
\* a status that exist.
ReferencesExist ==
    \A i \in db.indicators :
        /\ \E t \in IndicatorType : t.id = i.type
        /\ \E u \in User : u.id = i.user
        /\ \A tbl \in TableNames : \E q \in db[tbl] : q.id = i[tbl]

====
